---- MODULE Spec2Model ----
(***************************************************************************)
(* Model of db/records/operations/group.py: the grouping-query planner     *)
(* (GroupBy validation, the three group-select builders and the metadata   *)
(* object they attach to every row, evaluated with PostgreSQL's window     *)
(* function semantics) and extract_group_metadata, which moves the group   *)
(* metadata out of the returned records.                                   *)
(***************************************************************************)
EXTENDS Integers, Sequences, FiniteSets, TLC

VARIABLES
    group_by,   \* the GroupBy object handed to the planner
    pc,         \* "new", "planned", "executed" for a grouping request;
                \* "extract", "extracted", "again" for an extraction
    outcome,    \* what get_group_augmented_records_query did
    records,    \* what the relational engine returned for the query
    record_dictionaries,  \* the argument of extract_group_metadata
    extracted,  \* result of extract_group_metadata(record_dictionaries)
    extracted2  \* result of extract_group_metadata on the records of extracted

vars == <<group_by, pc, outcome, records, record_dictionaries, extracted, extracted2>>

\* ------------------------------------------------------------------ bounds
MaxRows == 3
MaxCols == 2
MaxNumGroups == 3
MaxRecords == 2

\* ------------------------------------------------------------- utilities
Range(s) == {s[i] : i \in 1..Len(s)}

SeqsUpTo(S, n) == UNION {[1..k -> S] : k \in 0..n}

Min(S) == CHOOSE x \in S : \A y \in S : x <= y

Max(S) == CHOOSE x \in S : \A y \in S : x >= y

RECURSIVE Pow10(_)
Pow10(n) == IF n <= 0 THEN 1 ELSE 10 * Pow10(n - 1)

\* lexicographic order on equal-length tuples of numbers (ORDER BY c1, c2, ...)
LexLess(s, t) ==
    \E i \in 1..Len(s) :
        /\ s[i] < t[i]
        /\ \A j \in 1..(i - 1) : s[j] = t[j]

LexLeq(s, t) == s = t \/ LexLess(s, t)

\* ------------------------------------------------------------ GroupMode
DISTINCT == "distinct"
MAGNITUDE == "magnitude"
PERCENTILE == "percentile"

GroupMode == {DISTINCT, MAGNITUDE, PERCENTILE}

\* ------------------------------------------------------------ the table
\* Column values are decimal numbers with one fractional digit, held as
\* integer multiples of 1/Scale (950 is 95.0, -5 is -0.5).
Scale == 10

TableColumns == {"a", "b"}

AVals == {-5, 100, 150, 950}

BVals == {1, 2}

TableRow == {<<x, y>> : x \in AVals, y \in BVals}

Cell(row, name) == IF name = "a" THEN row[1] ELSE row[2]

\* a table is a bag of rows; it is held in non-decreasing order
Tables ==
    {t \in SeqsUpTo(TableRow, MaxRows) :
        \A i \in 1..(Len(t) - 1) : LexLeq(t[i], t[i + 1])}

\* ------------------------------------------------------------- GroupBy
Str(name) == [type |-> "str", name |-> name]

ColumnObj(name) == [type |-> "Column", name |-> name]

ColumnIds == {Str("a"), Str("b"), Str("zz"), ColumnObj("a")}

IntV(n) == [type |-> "int", val |-> n]

NumGroupsVals ==
    {[type |-> "NoneType", val |-> 0], [type |-> "float", val |-> 2]}
        \cup {IntV(n) : n \in -1..MaxNumGroups}

Modes == GroupMode \cup {"invalid"}

GroupBys ==
    [columns : SeqsUpTo(ColumnIds, MaxCols), mode : Modes, num_groups : NumGroupsVals]

NoException == "none"

\* validate without the num_groups check of percentile mode
validate_no_percentile_check(gb) ==
    IF gb.mode \notin GroupMode THEN "InvalidGroupType"
    ELSE IF gb.mode = MAGNITUDE /\ ~(Len(gb.columns) = 1) THEN "BadGroupFormat"
    ELSE IF \E i \in 1..Len(gb.columns) : gb.columns[i].type # "str" THEN "BadGroupFormat"
    ELSE NoException

\* GroupBy.validate: the exception it raises, or NoException
validate(gb) ==
    IF gb.mode \notin GroupMode THEN "InvalidGroupType"
    ELSE IF gb.mode = PERCENTILE /\ ~(gb.num_groups.type = "int") THEN "BadGroupFormat"
    ELSE IF gb.mode = MAGNITUDE /\ ~(Len(gb.columns) = 1) THEN "BadGroupFormat"
    ELSE IF \E i \in 1..Len(gb.columns) : gb.columns[i].type # "str" THEN "BadGroupFormat"
    ELSE NoException

\* create_col_objects: the resolved columns, in the order given
create_col_objects(columns) == [i \in 1..Len(columns) |-> columns[i].name]

\* GroupBy.get_validated_group_by_columns
get_validated_group_by_columns(gb) ==
    IF validate(gb) # NoException
    THEN [exc |-> validate(gb), table_consulted |-> FALSE, columns |-> <<>>]
    ELSE IF \E i \in 1..Len(gb.columns) : gb.columns[i].name \notin TableColumns
    THEN [exc |-> "GroupFieldNotFound", table_consulted |-> TRUE, columns |-> <<>>]
    ELSE [exc |-> NoException, table_consulted |-> TRUE,
          columns |-> create_col_objects(gb.columns)]

\* ------------------------------------------------- the query builders
\* A query is the plan the builders assemble: which strategy built it, the
\* grouping columns, the WHEN branches of the percentile CASE, and the
\* window (partition_by, order_by) of the metadata object.
NoQuery == [strategy |-> "none", columns |-> <<>>, ranges |-> <<>>,
            partition_by |-> "none", group_id |-> "none"]

get_distinct_group_select(grouping_columns) ==
    [strategy |-> DISTINCT, columns |-> grouping_columns, ranges |-> <<>>,
     partition_by |-> "columns", group_id |-> "dense_rank(columns)"]

get_tens_powers_range_group_select(grouping_columns) ==
    [strategy |-> MAGNITUDE, columns |-> grouping_columns, ranges |-> <<>>,
     partition_by |-> "raw_id", group_id |-> "dense_rank(raw_id)"]

\* ranges: one WHEN per i in range(num_groups), cume_dist in (i/N, (i+1)/N]
\* gives i + 1; a bound p/q is held as <<p, q>>
get_percentile_range_group_select(columns, num_groups) ==
    [strategy |-> PERCENTILE, columns |-> columns,
     ranges |-> [k \in 1..num_groups |->
                   [gt |-> <<k - 1, num_groups>>, leq |-> <<k, num_groups>>, id |-> k]],
     partition_by |-> "range_id", group_id |-> "range_id"]

get_group_augmented_records_query(gb) ==
    LET v == get_validated_group_by_columns(gb) IN
    IF v.exc # NoException
    THEN [exc |-> v.exc, table_consulted |-> v.table_consulted,
          builder |-> "none", builder_num_groups |-> 0, query |-> NoQuery]
    ELSE IF gb.mode = PERCENTILE
    THEN [exc |-> NoException, table_consulted |-> TRUE,
          builder |-> PERCENTILE, builder_num_groups |-> gb.num_groups.val,
          query |-> get_percentile_range_group_select(v.columns, gb.num_groups.val)]
    ELSE IF gb.mode = MAGNITUDE
    THEN [exc |-> NoException, table_consulted |-> TRUE,
          builder |-> MAGNITUDE, builder_num_groups |-> 0,
          query |-> get_tens_powers_range_group_select(v.columns)]
    ELSE IF gb.mode = DISTINCT
    THEN [exc |-> NoException, table_consulted |-> TRUE,
          builder |-> DISTINCT, builder_num_groups |-> 0,
          query |-> get_distinct_group_select(v.columns)]
    ELSE [exc |-> "BadGroupFormat", table_consulted |-> TRUE,
          builder |-> "none", builder_num_groups |-> 0, query |-> NoQuery]

\* ------------------------------------------- the relational engine
\* Window functions of PostgreSQL, over the n rows whose ordering (or
\* partitioning) keys are the tuples keys[1..n].

\* rank(): one more than the number of rows that precede the row's peers
rank(keys, i) ==
    Cardinality({j \in 1..Len(keys) : LexLess(keys[j], keys[i])}) + 1

\* dense_rank(): one more than the number of distinct peer groups before it
dense_rank(keys, i) ==
    Cardinality({keys[j] : j \in {k \in 1..Len(keys) : LexLess(keys[k], keys[i])}}) + 1

\* cume_dist(): (rows preceding or peer with the row) / (total rows), as <<p, q>>
cume_dist(keys, i) ==
    <<Cardinality({j \in 1..Len(keys) : LexLeq(keys[j], keys[i])}), Len(keys)>>

\* comparison of fractions with positive denominators.  Both sides are
\* correctly rounded double divisions of small integers, so they compare
\* as the fractions do.
FracLess(x, y) == x[1] * y[2] < y[1] * x[2]

FracLeq(x, y) == x[1] * y[2] <= y[1] * x[2]

\* SQL NULL in a bound field; a value v is held as <<v>>
Null == <<>>

\* NULL of the CASE expression that labels RANGE_ID (no WHEN matched)
NullRangeId == 0

\* the CASE with c >= gt AND c < leq on its branches
case_ranges_left_closed(ranges, c) ==
    LET matching == {k \in 1..Len(ranges) :
                        FracLeq(ranges[k].gt, c) /\ FracLess(c, ranges[k].leq)}
    IN  IF matching = {} THEN NullRangeId ELSE ranges[Min(matching)].id

\* CASE WHEN c > gt AND c <= leq THEN id ... END: the first branch that matches
case_ranges(ranges, c) ==
    LET matching == {k \in 1..Len(ranges) :
                        FracLess(ranges[k].gt, c) /\ FracLeq(c, ranges[k].leq)}
    IN  IF matching = {} THEN NullRangeId ELSE ranges[Min(matching)].id

\* the values of the columns named in cols, in that order
Key(row, cols) == [k \in 1..Len(cols) |-> Cell(row, cols[k])]

\* the metadata object with count partitioned by the order key
get_group_metadata_definition_count_by_order(n, i, partition_by, order_by, inner, group_id, leq, geq, lt, gt) ==
    LET part == {j \in 1..n : partition_by[j] = partition_by[i]}
        first == CHOOSE j \in part : \A k \in part : LexLeq(order_by[j], order_by[k])
        last == CHOOSE j \in part : \A k \in part : LexLeq(order_by[k], order_by[j])
    IN  [group_id |-> group_id[i],
         count |-> Cardinality({j \in 1..n : order_by[j] = order_by[i]}),
         first_value |-> inner[first],
         last_value |-> inner[last],
         less_than_eq_value |-> leq,
         greater_than_eq_value |-> geq,
         less_than_value |-> lt,
         greater_than_value |-> gt]

\* _get_group_metadata_definition, evaluated for row i of n rows.
\* partition_by, order_by, inner, group_id are the per-row values of the
\* window's partition key, its order key, the inner grouping object and the
\* group id expression; the frame is the whole partition.
get_group_metadata_definition(n, i, partition_by, order_by, inner, group_id, leq, geq, lt, gt) ==
    LET part == {j \in 1..n : partition_by[j] = partition_by[i]}
        first == CHOOSE j \in part : \A k \in part : LexLeq(order_by[j], order_by[k])
        last == CHOOSE j \in part : \A k \in part : LexLeq(order_by[k], order_by[j])
    IN  [group_id |-> group_id[i],
         count |-> Cardinality(part),
         first_value |-> inner[first],
         last_value |-> inner[last],
         less_than_eq_value |-> leq,
         greater_than_eq_value |-> geq,
         less_than_value |-> lt,
         greater_than_value |-> gt]

\* ---- distinct: partition and order by the grouping columns
run_distinct(q, t) ==
    LET n == Len(t)
        keys == [i \in 1..n |-> Key(t[i], q.columns)]
        gid == [i \in 1..n |-> dense_rank(keys, i)]
    IN  [i \in 1..n |->
            [row |-> t[i],
             meta |-> get_group_metadata_definition(
                          n, i, keys, keys, keys, gid, Null, Null, Null, Null)]]

\* ---- magnitude: the calculation helpers
\* get_extrema_diff_select: max - min of the column over the whole table
get_extrema_diff_select(vals) == Max(Range(vals)) - Min(Range(vals))

\* floor(log10(d)) for an integer d >= 1
RECURSIVE FloorLog10(_)
FloorLog10(d) == IF d < 10 THEN 0 ELSE 1 + FloorLog10(d \div 10)

\* get_offset_order_of_magnitude_select: floor(log10) of the difference;
\* diff counts 1/Scale, so log10(diff / 10) = log10(diff) - 1
get_offset_order_of_magnitude_select(diff) == FloorLog10(diff) - 1

\* 10^power in units of 1/Scale (power >= -1)
PowerOfTen(power) == Pow10(power + 1)

\* divide_by_power_of_ten_select: floor(value / 10^power)
divide_by_power_of_ten_select(value, power) == value \div PowerOfTen(power)

\* trunc(x, places): x cut toward zero to the given number of decimals
trunc(x, places) ==
    LET q == Scale \div Pow10(places)
    IN  IF x >= 0 THEN (x \div q) * q ELSE -(((-x) \div q) * q)

\* the bound with id_offset left out
get_pretty_bound_expr_no_offset(raw_id, power, id_offset) ==
    IF power >= 0
    THEN trunc(raw_id * PowerOfTen(power), 0)
    ELSE trunc(raw_id * PowerOfTen(power), (-1) * power)

\* _get_pretty_bound_expr(id_offset) for one row
get_pretty_bound_expr(raw_id, power, id_offset) ==
    IF power >= 0
    THEN trunc((raw_id + id_offset) * PowerOfTen(power), 0)
    ELSE trunc((raw_id + id_offset) * PowerOfTen(power), (-1) * power)

run_tens_powers(q, t) ==
    LET n == Len(t)
        col == [i \in 1..n |-> Key(t[i], q.columns)]
        diff == get_extrema_diff_select([i \in 1..n |-> col[i][1]])
        power == get_offset_order_of_magnitude_select(diff)
        raw_id == [i \in 1..n |-> <<divide_by_power_of_ten_select(col[i][1], power)>>]
        gid == [i \in 1..n |-> dense_rank(raw_id, i)]
    IN  [i \in 1..n |->
            [row |-> t[i],
             meta |-> get_group_metadata_definition(
                          n, i, raw_id, col, col, gid,
                          Null,
                          <<get_pretty_bound_expr(raw_id[i][1], power, 0)>>,
                          <<get_pretty_bound_expr(raw_id[i][1], power, 1)>>,
                          Null)]]

\* ---- percentile
TableColumnOrder == <<"a", "b">>

\* [col for col in ranges_cte.columns if col.name in column_names]
ranges_aggregation_cols(columns) ==
    SelectSeq(TableColumnOrder, LAMBDA c : c \in Range(columns))

run_percentile(q, t) ==
    LET n == Len(t)
        keys == [i \in 1..n |-> Key(t[i], q.columns)]
        range_id == [i \in 1..n |-> case_ranges(q.ranges, cume_dist(keys, i))]
        agg == [i \in 1..n |-> Key(t[i], ranges_aggregation_cols(q.columns))]
    IN  [i \in 1..n |->
            [row |-> t[i],
             meta |-> get_group_metadata_definition(
                          n, i, range_id, agg, agg, range_id, Null, Null, Null, Null)]]

EngineError == [status |-> "error", rows |-> <<>>]

\* the engine's answer to the query on table t
RunQuery(q, t) ==
    IF q.strategy = DISTINCT THEN [status |-> "ok", rows |-> run_distinct(q, t)]
    ELSE IF q.strategy = MAGNITUDE
    THEN IF t = <<>> THEN [status |-> "ok", rows |-> <<>>]
         \* log of zero is an error
         ELSE IF get_extrema_diff_select([i \in 1..Len(t) |-> Cell(t[i], q.columns[1])]) = 0
         THEN EngineError
         ELSE [status |-> "ok", rows |-> run_tens_powers(q, t)]
    \* a CASE without WHEN is a syntax error
    ELSE IF q.ranges = <<>> THEN EngineError
    ELSE [status |-> "ok", rows |-> run_percentile(q, t)]

\* ------------------------------------------------------------- actions
NoOutcome == [exc |-> NoException, table_consulted |-> FALSE,
              builder |-> "none", builder_num_groups |-> 0, query |-> NoQuery]

NoRecords == [status |-> "none", rows |-> <<>>]

NoExtract == [status |-> "none", records |-> <<>>, groups |-> <<>>, has_groups |-> FALSE]

InitGroup ==
    /\ group_by \in GroupBys
    /\ pc = "new"
    /\ outcome = NoOutcome
    /\ records = NoRecords
    /\ record_dictionaries = <<>>
    /\ extracted = NoExtract
    /\ extracted2 = NoExtract

GetGroupAugmentedRecordsQuery ==
    /\ pc = "new"
    /\ outcome' = get_group_augmented_records_query(group_by)
    /\ pc' = "planned"
    /\ UNCHANGED <<group_by, records, record_dictionaries, extracted, extracted2>>

Execute ==
    /\ pc = "planned"
    /\ outcome.exc = NoException
    /\ \E t \in Tables : records' = RunQuery(outcome.query, t)
    /\ pc' = "executed"
    /\ UNCHANGED <<group_by, outcome, record_dictionaries, extracted, extracted2>>

NextGroup == GetGroupAugmentedRecordsQuery \/ Execute

SpecGroup == InitGroup /\ [][NextGroup]_vars

\* ---------------------------------------------- properties: planning
Planned == pc \in {"planned", "executed"}

Executed == pc = "executed" /\ records.status = "ok"

GroupColumnNames == [k \in 1..Len(group_by.columns) |-> group_by.columns[k].name]

BoundsAreNull(m) ==
    /\ m.less_than_eq_value = Null
    /\ m.greater_than_eq_value = Null
    /\ m.less_than_value = Null
    /\ m.greater_than_value = Null

\* C1: building a grouping plan has exactly one outcome, decided by the first
\* failing check in the order mode, percentile num_groups, magnitude column
\* count, column identifier type, column presence; validation errors come
\* before the table is consulted, every error before any builder runs, and a
\* plan of the strategy matching the mode is returned only when no check fails.
C1_FirstFailingCheckDecides ==
    Planned =>
        LET gb == group_by
            modeOk == gb.mode \in {"distinct", "magnitude", "percentile"}
            numOk == gb.mode = "percentile" => gb.num_groups.type = "int"
            magOk == gb.mode = "magnitude" => Len(gb.columns) = 1
            namesOk == \A i \in 1..Len(gb.columns) : gb.columns[i].type = "str"
            foundOk == \A i \in 1..Len(gb.columns) : gb.columns[i].name \in TableColumns
            valid == modeOk /\ numOk /\ magOk /\ namesOk
        IN  /\ ~modeOk => outcome.exc = "InvalidGroupType"
            /\ (modeOk /\ ~numOk) => outcome.exc = "BadGroupFormat"
            /\ (modeOk /\ numOk /\ ~magOk) => outcome.exc = "BadGroupFormat"
            /\ (modeOk /\ numOk /\ magOk /\ ~namesOk) => outcome.exc = "BadGroupFormat"
            /\ (valid /\ ~foundOk) => outcome.exc = "GroupFieldNotFound"
            /\ ~valid => ~outcome.table_consulted
            /\ outcome.exc # NoException =>
                   outcome.builder = "none" /\ outcome.query = NoQuery
            /\ outcome.builder # "none" => (valid /\ foundOk)
            /\ (valid /\ foundOk) =>
                   /\ outcome.exc = NoException
                   /\ outcome.builder = gb.mode
                   /\ outcome.query.strategy = gb.mode

\* a percentile spec without integer num_groups that also names a missing
\* column: the earlier check decides
C1_Witness ==
    /\ pc = "planned"
    /\ group_by.mode = "percentile"
    /\ group_by.num_groups.type = "NoneType"
    /\ group_by.columns = <<Str("zz")>>
    /\ outcome.exc = "BadGroupFormat"

\* C10: a percentile spec whose num_groups is not a positive integer is
\* rejected with BadGroupFormat, so the percentile builder only ever runs with
\* num_groups >= 1.
C10_PercentileNumGroupsPositive ==
    Planned =>
        /\ (/\ group_by.mode = "percentile"
            /\ ~(group_by.num_groups.type = "int" /\ group_by.num_groups.val >= 1))
               => outcome.exc = "BadGroupFormat"
        /\ outcome.builder = "percentile" => outcome.builder_num_groups >= 1

\* ----------------------------------------- properties: the strategies
RowKey(r) == [k \in 1..Len(GroupColumnNames) |-> Cell(r.row, GroupColumnNames[k])]

GroupIds == {records.rows[i].meta.group_id : i \in 1..Len(records.rows)}

\* C5: in distinct mode two rows share a group id iff they agree on all
\* grouping columns, the ids are exactly 1..k for k value combinations, they
\* ascend with the grouping-column tuple, and the four bounds are null.
C5_DistinctDenseIds ==
    (Executed /\ outcome.query.strategy = "distinct") =>
        LET rs == records.rows
            n == Len(rs)
            combos == {RowKey(rs[i]) : i \in 1..n}
        IN  /\ \A i, j \in 1..n :
                   (rs[i].meta.group_id = rs[j].meta.group_id) <=> (RowKey(rs[i]) = RowKey(rs[j]))
            /\ GroupIds = 1..Cardinality(combos)
            /\ \A i, j \in 1..n :
                   LexLess(RowKey(rs[i]), RowKey(rs[j]))
                       => rs[i].meta.group_id < rs[j].meta.group_id
            /\ \A i \in 1..n : BoundsAreNull(rs[i].meta)

\* three rows grouped on two columns, two of them agreeing
C5_Witness ==
    /\ Executed
    /\ outcome.query.strategy = "distinct"
    /\ Len(group_by.columns) = 2
    /\ Len(records.rows) = 3
    /\ GroupIds = {1, 2}

\* C6: for each strategy the count in a row's metadata is the number of
\* output rows that carry the row's group id.
C6_CountMatchesGroupId ==
    Executed =>
        LET rs == records.rows
            n == Len(rs)
        IN  \A i \in 1..n :
                rs[i].meta.count =
                    Cardinality({j \in 1..n : rs[j].meta.group_id = rs[i].meta.group_id})

\* a magnitude group of two rows whose values differ, next to another group
C6_Witness ==
    /\ Executed
    /\ outcome.query.strategy = "magnitude"
    /\ Len(records.rows) = 3
    /\ \E i, j \in 1..3 :
           /\ records.rows[i].row # records.rows[j].row
           /\ records.rows[i].meta.group_id = records.rows[j].meta.group_id
           /\ records.rows[i].meta.count = 2

\* C7: in percentile mode with num_groups = N >= 1 every row gets exactly one
\* bucket g in 1..N, the one with (g-1)/N < c <= g/N for the row's cumulative
\* distribution c over the whole table ordered by the grouping columns; the
\* group id is g and no bound is set.
C7_PercentileBucket ==
    (Executed /\ outcome.query.strategy = "percentile" /\ group_by.num_groups.val >= 1) =>
        LET rs == records.rows
            n == Len(rs)
            N == group_by.num_groups.val
            atOrBefore(i) ==
                Cardinality({j \in 1..n : LexLeq(RowKey(rs[j]), RowKey(rs[i]))})
        IN  \A i \in 1..n :
                LET g == rs[i].meta.group_id
                    inBucket(b) == (b - 1) * n < atOrBefore(i) * N /\ atOrBefore(i) * N <= b * n
                IN  /\ g \in 1..N
                    /\ inBucket(g)
                    /\ \A b \in 1..N : inBucket(b) => b = g
                    /\ BoundsAreNull(rs[i].meta)

\* a row whose cumulative distribution is exactly the upper edge of bucket 1
C7_Witness ==
    /\ Executed
    /\ outcome.query.strategy = "percentile"
    /\ group_by.num_groups.val = 2
    /\ Len(records.rows) = 2
    /\ records.rows[1].meta.group_id = 1
    /\ records.rows[2].meta.group_id = 2

IsPowerOfTen(w) == \E e \in 0..4 : w = Pow10(e)

\* C8: in magnitude mode every row's value v satisfies
\* greater_than_eq <= v < less_than for its own bounds, the bounds are
\* raw_id * 10^power and (raw_id + 1) * 10^power with 10^power the power of ten
\* of the table-wide max - min, they strictly increase with the group id, the
\* ids are dense from 1, less_than_eq and greater_than are null, and the values
\* 10, 15, 95 give [10, 20) for 10 and 15 and [90, 100) for 95.
C8_MagnitudeBounds ==
    (Executed /\ outcome.query.strategy = "magnitude") =>
        LET rs == records.rows
            n == Len(rs)
            v(i) == RowKey(rs[i])[1]
            geq(i) == rs[i].meta.greater_than_eq_value
            lt(i) == rs[i].meta.less_than_value
            diff == Max({v(i) : i \in 1..n}) - Min({v(i) : i \in 1..n})
        IN  /\ \A i \in 1..n :
                   /\ geq(i) # Null /\ lt(i) # Null
                   /\ geq(i)[1] <= v(i) /\ v(i) < lt(i)[1]
                   /\ \E w \in 1..(10 * Scale * Scale) :
                          /\ IsPowerOfTen(w)
                          /\ w <= diff /\ diff < 10 * w
                          /\ lt(i)[1] - geq(i)[1] = w
                          /\ geq(i)[1] % w = 0
                   /\ rs[i].meta.less_than_eq_value = Null
                   /\ rs[i].meta.greater_than_value = Null
            /\ \A i, j \in 1..n :
                   rs[i].meta.group_id < rs[j].meta.group_id
                       => geq(i)[1] < geq(j)[1] /\ lt(i)[1] < lt(j)[1]
            /\ GroupIds = 1..Cardinality(GroupIds)
            /\ (n = 3 /\ v(1) = 10 * Scale /\ v(2) = 15 * Scale /\ v(3) = 95 * Scale) =>
                   /\ geq(1) = <<10 * Scale>> /\ lt(1) = <<20 * Scale>>
                   /\ geq(2) = <<10 * Scale>> /\ lt(2) = <<20 * Scale>>
                   /\ geq(3) = <<90 * Scale>> /\ lt(3) = <<100 * Scale>>
                   /\ rs[1].meta.group_id = rs[2].meta.group_id
                   /\ rs[3].meta.group_id # rs[1].meta.group_id

\* the table with the values 10, 15 and 95
C8_Witness ==
    /\ Executed
    /\ outcome.query.strategy = "magnitude"
    /\ Len(records.rows) = 3
    /\ [i \in 1..3 |-> RowKey(records.rows[i])[1]] = <<10 * Scale, 15 * Scale, 95 * Scale>>
    /\ [i \in 1..3 |-> records.rows[i].meta.group_id] = <<1, 1, 2>>

\* ------------------------------------------------ record dictionaries
MATHESAR_GROUP_METADATA == "__mathesar_group_metadata"

GROUP_ID == "group_id"

COUNT == "count"

\* Python values: an int, None, a dict, or (for a key of a record) no entry.
\* A dict is the sequence of its <<key, value>> items in insertion order.
IntVal(n) == [t |-> "int", n |-> n, o |-> <<>>]

None == [t |-> "null", n |-> 0, o |-> <<>>]

Dict(items) == [t |-> "obj", n |-> 0, o |-> items]

Absent == [t |-> "absent", n |-> 0, o |-> <<>>]

\* d1 == d2 on dicts of scalars: the same items, in any order
DictEq(d1, d2) == Range(d1.o) = Range(d2.o) /\ d1.t = d2.t

HasKey(items, k) == \E i \in 1..Len(items) : items[i][1] = k

\* d.get(k, default)
DictGet(items, k, default) ==
    IF HasKey(items, k)
    THEN items[CHOOSE i \in 1..Len(items) : items[i][1] = k][2]
    ELSE default

\* d | {k: v}
DictUnion(items, k, v) ==
    IF HasKey(items, k)
    THEN [i \in 1..Len(items) |-> IF items[i][1] = k THEN <<k, v>> ELSE items[i]]
    ELSE Append(items, <<k, v>>)

\* bool(x)
Truthy(x) == (x.t = "obj" /\ x.o # <<>>) \/ (x.t = "int" /\ x.n # 0)

GroupIdVals == {1, 2}

CountVals == {1, 2}

GroupMetadataVals ==
    UNION {{Dict(<<<<GROUP_ID, IntVal(g)>>, <<COUNT, IntVal(c)>>>>),
            Dict(<<<<COUNT, IntVal(c)>>, <<GROUP_ID, IntVal(g)>>>>)} :
           g \in GroupIdVals, c \in CountVals}

DataVals ==
    {<<<<"a", IntVal(1)>>>>}
        \cup {<<<<"a", IntVal(1)>>, <<MATHESAR_GROUP_METADATA, m>>>> :
                 m \in GroupMetadataVals \cup {Dict(<<>>)}}

MetadataVals == {Absent, None, Dict(<<<<GROUP_ID, IntVal(7)>>, <<"x", IntVal(5)>>>>)}

RecordVals == [data : DataVals, metadata : MetadataVals]

\* ------------------------------------------------------------- json
\* json.dumps: the text, as the sequence of its tokens
RECURSIVE json_dumps(_)
RECURSIVE DumpItems(_)
DumpItems(items) ==
    IF items = <<>> THEN <<>>
    ELSE (IF Len(items) > 1 THEN DumpItems(SubSeq(items, 1, Len(items) - 1)) \o <<",">>
          ELSE <<>>)
         \o <<items[Len(items)][1], ":">> \o json_dumps(items[Len(items)][2])

json_dumps(x) ==
    IF x.t = "null" THEN <<"null">>
    ELSE IF x.t = "int" THEN <<ToString(x.n)>>
    ELSE <<"{">> \o DumpItems(x.o) \o <<"}">>

ParseScalar(tok) ==
    IF tok = "null" THEN None
    ELSE IntVal(CHOOSE n \in -9..9 : ToString(n) = tok)

\* json.loads of the text of None or of a dict of scalars
json_loads(s) ==
    IF s = <<"null">> THEN None
    ELSE Dict([i \in 1..((Len(s) - 1) \div 4) |-> <<s[4 * i - 2], ParseScalar(s[4 * i])>>])

\* ------------------------------------------- extract_group_metadata
\* _get_record_pieces leaving the group metadata field in data
get_record_pieces_keep_field(record) ==
    LET group_metadata == DictGet(record.data, MATHESAR_GROUP_METADATA, Dict(<<>>))
        base == IF record.metadata.t = "absent" THEN Dict(<<>>) ELSE record.metadata
        plain == IF record.metadata.t = "absent" THEN None ELSE record.metadata
    IN  IF Truthy(group_metadata)
        THEN IF base.t # "obj"
             THEN [exc |-> "TypeError", record |-> [data |-> record.data, metadata |-> None], group |-> None]
             ELSE [exc |-> NoException,
                   record |-> [data |-> record.data,
                               metadata |-> Dict(DictUnion(base.o, GROUP_ID,
                                                DictGet(group_metadata.o, GROUP_ID, None)))],
                   group |-> group_metadata]
        ELSE [exc |-> NoException, record |-> [data |-> record.data, metadata |-> plain], group |-> None]

\* _get_record_pieces: the record without the group metadata, and the group
\* metadata (None if there is none); exc is the exception of None | dict
get_record_pieces(record) ==
    LET data == SelectSeq(record.data, LAMBDA kv : kv[1] # MATHESAR_GROUP_METADATA)
        group_metadata == DictGet(record.data, MATHESAR_GROUP_METADATA, Dict(<<>>))
        \* record.get(metadata_key, {}) and record.get(metadata_key)
        base == IF record.metadata.t = "absent" THEN Dict(<<>>) ELSE record.metadata
        plain == IF record.metadata.t = "absent" THEN None ELSE record.metadata
    IN  IF Truthy(group_metadata)
        THEN IF base.t # "obj"
             THEN [exc |-> "TypeError", record |-> [data |-> data, metadata |-> None], group |-> None]
             ELSE [exc |-> NoException,
                   record |-> [data |-> data,
                               metadata |-> Dict(DictUnion(base.o, GROUP_ID,
                                                DictGet(group_metadata.o, GROUP_ID, None)))],
                   group |-> group_metadata]
        ELSE [exc |-> NoException, record |-> [data |-> data, metadata |-> plain], group |-> None]

\* the key of sorted(): x[GROUP_ID] if x else None
SortKey(x) == IF Truthy(x) THEN DictGet(x.o, GROUP_ID, Absent) ELSE None

\* sorted(list, key=...) is stable: an item goes behind the items whose key
\* is not greater
RECURSIVE sorted(_)
sorted(l) ==
    IF l = <<>> THEN <<>>
    ELSE LET rest == sorted(SubSeq(l, 1, Len(l) - 1))
             x == l[Len(l)]
             before == SelectSeq(rest, LAMBDA y : SortKey(y).n <= SortKey(x).n)
             after == SelectSeq(rest, LAMBDA y : SortKey(y).n > SortKey(x).n)
         IN  before \o <<x>> \o after

\* set([json.dumps(group) for group in group_tup])
BlobSet(rds) == {json_dumps(get_record_pieces(rds[i]).group) : i \in 1..Len(rds)}

\* the orders in which a set may be iterated
Iterations(S) ==
    {it \in [1..Cardinality(S) -> S] : \A i, j \in 1..Cardinality(S) : it[i] = it[j] => i = j}

Raised(e) == [status |-> e, records |-> <<>>, groups |-> <<>>, has_groups |-> FALSE]

\* extract_group_metadata, with the set of blobs iterated in the order blobs
extract_group_metadata(rds, blobs) ==
    LET pieces == [i \in 1..Len(rds) |-> get_record_pieces(rds[i])]
        loaded == [i \in 1..Len(blobs) |-> json_loads(blobs[i])]
        reduced_groups == sorted(loaded)
    IN  \* None | {...}
        IF \E i \in 1..Len(rds) : pieces[i].exc # NoException THEN Raised("TypeError")
        \* record_tup, group_tup = zip(*()) has nothing to unpack
        ELSE IF rds = <<>> THEN Raised("ValueError")
        \* x[GROUP_ID] of a group without that key
        ELSE IF \E i \in 1..Len(loaded) : SortKey(loaded[i]).t = "absent" THEN Raised("KeyError")
        \* None does not compare, with an int or with None
        ELSE IF Len(loaded) >= 2 /\ \E i \in 1..Len(loaded) : SortKey(loaded[i]).t # "int"
        THEN Raised("TypeError")
        ELSE [status |-> "ok",
              records |-> [i \in 1..Len(rds) |-> pieces[i].record],
              groups |-> IF reduced_groups # <<None>> THEN reduced_groups ELSE <<>>,
              has_groups |-> reduced_groups # <<None>>]

InitExtract ==
    /\ record_dictionaries \in SeqsUpTo(RecordVals, MaxRecords)
    /\ pc = "extract"
    /\ group_by = [columns |-> <<>>, mode |-> DISTINCT, num_groups |-> IntV(0)]
    /\ outcome = NoOutcome
    /\ records = NoRecords
    /\ extracted = NoExtract
    /\ extracted2 = NoExtract

ExtractGroupMetadata ==
    /\ pc = "extract"
    /\ \E blobs \in Iterations(BlobSet(record_dictionaries)) :
           extracted' = extract_group_metadata(record_dictionaries, blobs)
    /\ pc' = "extracted"
    /\ UNCHANGED <<group_by, outcome, records, record_dictionaries, extracted2>>

\* the caller hands the returned records to extract_group_metadata again
ExtractAgain ==
    /\ pc = "extracted"
    /\ extracted.status = "ok"
    /\ \E blobs \in Iterations(BlobSet(extracted.records)) :
           extracted2' = extract_group_metadata(extracted.records, blobs)
    /\ pc' = "again"
    /\ UNCHANGED <<group_by, outcome, records, record_dictionaries, extracted>>

NextExtract == ExtractGroupMetadata \/ ExtractAgain

SpecExtract == InitExtract /\ [][NextExtract]_vars

\* --------------------------------------------- properties: extraction
\* the group metadata a record carries (an empty dict if none)
Carried(record) == DictGet(record.data, MATHESAR_GROUP_METADATA, Dict(<<>>))

Carrying == {i \in 1..Len(record_dictionaries) : Truthy(Carried(record_dictionaries[i]))}

GroupsAscending ==
    \A k \in 1..(Len(extracted.groups) - 1) :
        DictGet(extracted.groups[k].o, GROUP_ID, None).n
            <= DictGet(extracted.groups[k + 1].o, GROUP_ID, None).n

\* C2: when every row carries non-empty group metadata, the returned group
\* list holds each structurally distinct metadata object exactly once, in
\* ascending group_id order; with identical metadata on all rows of a group
\* it has one entry per group_id.
C2_EachDistinctGroupOnce ==
    (/\ pc = "extracted"
     /\ extracted.status = "ok"
     /\ Carrying = 1..Len(record_dictionaries)) =>
        LET rds == record_dictionaries
            gs == extracted.groups
        IN  /\ extracted.has_groups
            /\ \A i \in 1..Len(rds) :
                   Cardinality({k \in 1..Len(gs) : DictEq(gs[k], Carried(rds[i]))}) = 1
            /\ \A k \in 1..Len(gs) : \E i \in 1..Len(rds) : DictEq(gs[k], Carried(rds[i]))
            /\ GroupsAscending
            /\ (\A i, j \in 1..Len(rds) :
                    DictGet(Carried(rds[i]).o, GROUP_ID, None) = DictGet(Carried(rds[j]).o, GROUP_ID, None)
                        => DictEq(Carried(rds[i]), Carried(rds[j])))
                   => Len(gs) = Cardinality({DictGet(Carried(rds[i]).o, GROUP_ID, None) :
                                                i \in 1..Len(rds)})

\* C3: the group list is None exactly when no row carries non-empty group
\* metadata; when some row does, also next to rows that carry none, the list
\* is returned sorted by group_id and holds just the metadata of the rows
\* that carried one.
C3_GroupListAbsentIffNoMetadata ==
    pc = "extracted" =>
        LET rds == record_dictionaries
            gs == extracted.groups
        IN  /\ extracted.status = "ok"
            /\ extracted.has_groups <=> Carrying # {}
            /\ \A i \in Carrying : \E k \in 1..Len(gs) : DictEq(gs[k], Carried(rds[i]))
            /\ \A k \in 1..Len(gs) : \E i \in Carrying : DictEq(gs[k], Carried(rds[i]))
            /\ GroupsAscending

\* C4: one cleaned row per input row, in input order: data is the input data
\* without the group metadata field; the metadata of a row that carried group
\* metadata is the input metadata map (empty if it had none) with group_id set
\* to the group's id, and that of any other row is the input metadata.
C4_CleanedRows ==
    pc = "extracted" =>
        LET rds == record_dictionaries
            out == extracted.records
        IN  /\ extracted.status = "ok"
            /\ Len(out) = Len(rds)
            /\ \A i \in 1..Len(rds) :
                   LET inMeta == IF rds[i].metadata.t = "obj" THEN rds[i].metadata.o ELSE <<>>
                       gid == DictGet(Carried(rds[i]).o, GROUP_ID, None)
                   IN  /\ ~HasKey(out[i].data, MATHESAR_GROUP_METADATA)
                       /\ Range(out[i].data) =
                              {kv \in Range(rds[i].data) : kv[1] # MATHESAR_GROUP_METADATA}
                       /\ i \in Carrying =>
                              /\ out[i].metadata.t = "obj"
                              /\ DictGet(out[i].metadata.o, GROUP_ID, None) = gid
                              /\ \A kv \in Range(inMeta) :
                                     kv[1] # GROUP_ID => kv \in Range(out[i].metadata.o)
                              /\ \A kv \in Range(out[i].metadata.o) :
                                     kv[1] # GROUP_ID => kv \in Range(inMeta)
                       /\ i \notin Carrying =>
                              out[i].metadata =
                                  (IF rds[i].metadata.t = "absent" THEN None ELSE rds[i].metadata)

\* C9: extracting again from the rows a first extraction returned gives those
\* rows unchanged and no group list.
C9_ExtractionIdempotent ==
    pc = "again" =>
        /\ extracted2.status = "ok"
        /\ extracted2.records = extracted.records
        /\ ~extracted2.has_groups

\* the first extraction found two groups on two rows
C9_Witness ==
    /\ pc = "again"
    /\ Len(record_dictionaries) = 2
    /\ extracted.has_groups
    /\ Len(extracted.groups) = 2
    /\ extracted2.status = "ok"

====
